---- MODULE Spec2Model ----
(***************************************************************************)
(* Model of WindowsXboxPyGameJoystick, the pygame adapter for the          *)
(* "Xbox Series X Controller" on Windows                                   *)
(* (src/game_controllers/joysticks/xbox_controller/                        *)
(* xbox_controller_windows.py).                                            *)
(*                                                                         *)
(* Numbers read from the joystick (axis and hat values) are kept in        *)
(* hundredths: the float 0.07 is the integer 7, the hat value 1 is 100.    *)
(***************************************************************************)
EXTENDS Integers, Sequences, FiniteSets, TLC

\* ------------------------------------------------------------------ bounds
MaxAxes == 8
MaxButtons == 18
MaxCalls == 2
MaxDispose == 2

\* ------------------------------------------------- enumerations (the tables)
\* Members in declaration order, as iterating the Enum yields them.
_ButtonKeys ==
    << [name |-> "A", value |-> 0],
       [name |-> "B", value |-> 1],
       [name |-> "X", value |-> 2],
       [name |-> "Y", value |-> 3],
       [name |-> "LB", value |-> 4],
       [name |-> "RB", value |-> 5],
       [name |-> "VIEW", value |-> 6],
       [name |-> "MENU", value |-> 7],
       [name |-> "LEFT_STICK", value |-> 8],
       [name |-> "RIGHT_STICK", value |-> 9],
       [name |-> "SCREENSHOT", value |-> 11] >>

_DPadKeys ==
    << [name |-> "HORIZONTAL", value |-> 0],
       [name |-> "VERTICAL", value |-> 1] >>

_AxisKeys ==
    << [name |-> "LEFT_STICK_HORIZONTAL", value |-> 0],
       [name |-> "LEFT_STICK_VERTICAL", value |-> 1],
       [name |-> "LEFT_ANALOG_TRIGGER", value |-> 4],
       [name |-> "RIGHT_STICK_HORIZONTAL", value |-> 2],
       [name |-> "RIGHT_STICK_VERTICAL", value |-> 3],
       [name |-> "RIGHT_ANALOG_TRIGGER", value |-> 5] >>

\* Enum.<NAME>.value
ValueOf(enum, nm) ==
    enum[CHOOSE k \in 1..Len(enum) : enum[k].name = nm].value

\* Whether Enum(v) finds a member; it raises ValueError when there is none.
HasMember(enum, v) == \E k \in 1..Len(enum) : enum[k].value = v

\* Enum(v).name, for a value that has a member
MemberOf(enum, v) ==
    enum[CHOOSE k \in 1..Len(enum) : enum[k].value = v].name

\* The fields of the dataclass, in the order fields() yields them.
ButtonFields ==
    << "A", "B", "X", "Y", "LB", "RB", "VIEW", "MENU",
       "SCREENSHOT", "LEFT_STICK", "RIGHT_STICK" >>

\* A void list that also swallows index 16
VOID_BUTTONS_wide == {10, 12, 13, 14, 15, 16}

\* Button keys that are not assigned to any button on the controller
VOID_BUTTONS == {10, 12, 13, 14, 15}

dead_zone == 7

\* ----------------------------------------------------------- small helpers
abs(x) == IF x < 0 THEN -x ELSE x

\* int(): truncation toward zero of a number kept in hundredths
int(x) == IF x < 0 THEN -((-x) \div 100) ELSE x \div 100

Range(s) == {s[k] : k \in 1..Len(s)}

Min(S) == CHOOSE x \in S : \A y \in S : x <= y

\* str.startswith
StartsWith(s, prefix) ==
    /\ Len(s) >= Len(prefix)
    /\ SubSeq(s, 1, Len(prefix)) = prefix

\* --------------------------------------------------------- the environment
\* sys.platform values, as character sequences
Platforms ==
    { <<"w", "i", "n", "3", "2">>,
      <<"l", "i", "n", "u", "x">>,
      <<"d", "a", "r", "w", "i", "n">> }

DeviceNames == {"Xbox Series X Controller", "Wireless Controller"}

\* Every device: each platform and name with each axis and button count.
AllDevices ==
    [platform : Platforms, name : DeviceNames,
     numaxes : 0..MaxAxes, numbuttons : 0..MaxButtons]

\* The devices that are polled: axis and button counts one short of what the
\* tables name, exactly those, with the void indices, and one more.
Devices ==
    [platform : Platforms, name : DeviceNames,
     numaxes : {5, 6, 7}, numbuttons : {11, 12, 16, 17}]

\* Indices get_state can ask the joystick for, and the void button indices.
AxisIdx == {_AxisKeys[k].value : k \in 1..Len(_AxisKeys)}
KeyIdx == {_ButtonKeys[k].value : k \in 1..Len(_ButtonKeys)}
ButtonIdx == KeyIdx \cup VOID_BUTTONS

\* Raw readings in hundredths: inside the dead zone, on its edge, outside.
AxisValues == {-50, -7, -6, 0, 6, 7, 50}
HatValues == {-100, 0, 100}

AxisRest == [i \in AxisIdx |-> 0]
ButtonRest == [i \in ButtonIdx |-> FALSE]
HatRest == <<0, 0>>

\* One stick or trigger moved; and the readings 0.03, -0.5, 0.02, 0.9, 0.0, 0.2
AxisInputs ==
    {[AxisRest EXCEPT ![i] = v] : i \in AxisIdx, v \in AxisValues}
        \cup {[i \in AxisIdx |-> <<3, -50, 2, 90, 0, 20>>[i + 1]]}

\* Any one index pressed, or any button together with SCREENSHOT
ButtonInputs ==
    {[i \in ButtonIdx |-> i = a] : a \in ButtonIdx}
        \cup {[i \in ButtonIdx |-> i \in {a, 11}] : a \in KeyIdx}
        \cup {ButtonRest}

HatInputs == {<<h, v>> : h \in HatValues, v \in HatValues}

\* The readings the joystick holds after an event pump: one group of controls
\* away from rest, or all three at once.
RawInputs ==
    {[axis |-> a, button |-> ButtonRest, hat |-> HatRest] : a \in AxisInputs}
        \cup {[axis |-> AxisRest, button |-> b, hat |-> HatRest] :
                 b \in ButtonInputs}
        \cup {[axis |-> AxisRest, button |-> ButtonRest, hat |-> h] :
                 h \in HatInputs}
        \cup {[axis |-> [i \in AxisIdx |-> <<3, -50, 2, 90, 0, 20>>[i + 1]],
               button |-> [i \in ButtonIdx |-> i \in {a, 11}],
               hat |-> <<100, -100>>] : a \in {0, 8}}

VARIABLES
    device,        \* what the joystick reports: platform, name, counts
    raw,           \* the readings the joystick holds: axis, button, hat
    status,        \* "Uninitialized", "Constructed" or "Failed" (__init__ raised)
    error,         \* the last error raised to the caller
    self,          \* the attributes __init__ sets
    initCount,     \* calls of joystick.init()
    pumpCount,     \* calls of pygame_connector.get_events()
    quitCount,     \* calls of joystick.quit()
    calls,         \* calls of get_state()
    disposeCalls,  \* calls of dispose()
    callLog,       \* the joystick/connector calls of the last get_state(), in order
    result,        \* what the last get_state() returned or raised
    repeat,        \* the last get_state() saw the readings of the one before
    pressed        \* what get_pressed_buttons() on the last snapshot returned

vars ==
    << device, raw, status, error, self, initCount, pumpCount, quitCount,
       calls, disposeCalls, callLog, result, repeat, pressed >>

NoSelf ==
    [axis_states |-> <<>>, button_states |-> <<>>,
     axis_ids |-> <<>>, button_ids |-> <<>>, dead_zone |-> 0]

NoState ==
    [axes |-> [left_stick |-> [horizontal_right |-> 0, vertical_down |-> 0],
               right_stick |-> [horizontal_right |-> 0, vertical_down |-> 0],
               left_analog_trigger |-> 0, right_analog_trigger |-> 0],
     buttons |-> [f \in Range(ButtonFields) |-> FALSE],
     d_pad |-> [horizontal |-> 0, vertical |-> 0]]

NoPressed == [valid |-> FALSE, names |-> <<>>]

InitFor(devices) ==
    /\ device \in devices
    /\ raw = [axis |-> AxisRest, button |-> ButtonRest, hat |-> HatRest]
    /\ status = "Uninitialized"
    /\ error = "none"
    /\ self = NoSelf
    /\ initCount = 0
    /\ pumpCount = 0
    /\ quitCount = 0
    /\ calls = 0
    /\ disposeCalls = 0
    /\ callLog = <<>>
    /\ result = [kind |-> "none", state |-> NoState]
    /\ repeat = FALSE
    /\ pressed = NoPressed

Init == InitFor(Devices)

InitAll == InitFor(AllDevices)

\* ------------------------------------------------------------- __init__
PlatformSupported(p) == StartsWith(p, <<"w", "i", "n">>)

\* A name check that accepts any device
NameMatches_any(name) == TRUE

NameMatches(name) == name = "Xbox Series X Controller"

\* range(get_numbuttons()) without the void indices
mapped_buttons(numbuttons) == {i \in 0..(numbuttons - 1) : i \notin VOID_BUTTONS}

\* _AxisKeys(i) raises for some i of range(get_numaxes())
AxisKeyMissing(numaxes) ==
    \E i \in 0..(numaxes - 1) : ~HasMember(_AxisKeys, i)

\* _ButtonKeys(i) raises for some i of mapped_buttons
ButtonKeyMissing(numbuttons) ==
    \E i \in mapped_buttons(numbuttons) : ~HasMember(_ButtonKeys, i)

Constructed(d) ==
    [axis_states |-> [i \in 1..d.numaxes |-> 0],
     button_states |-> [i \in 1..d.numbuttons |-> FALSE],
     axis_ids |-> [i \in 0..(d.numaxes - 1) |-> MemberOf(_AxisKeys, i)],
     button_ids |-> [i \in mapped_buttons(d.numbuttons) |->
                        MemberOf(_ButtonKeys, i)],
     dead_zone |-> dead_zone]

Construct ==
    /\ status = "Uninitialized"
    /\ initCount' = initCount + 1
    /\ IF /\ PlatformSupported(device.platform)
          /\ NameMatches(device.name)
          /\ ~AxisKeyMissing(device.numaxes)
          /\ ~ButtonKeyMissing(device.numbuttons)
       THEN /\ status' = "Constructed"
            /\ self' = Constructed(device)
            /\ error' = "none"
       ELSE /\ status' = "Failed"
            /\ self' = NoSelf
            /\ error' = "ValueError"
    /\ UNCHANGED << device, raw, pumpCount, quitCount, calls, disposeCalls,
                    callLog, result, repeat, pressed >>

\* ------------------------------------------------------------ get_state
\* pygame_connector.get_events(): the event pump
get_events == [op |-> "get_events", idx |-> 0]

\* The joystick calls of one get_state(), in the order the code makes them.
AxisReads ==
    << [op |-> "get_axis", idx |-> ValueOf(_AxisKeys, "LEFT_STICK_HORIZONTAL")],
       [op |-> "get_axis", idx |-> ValueOf(_AxisKeys, "LEFT_STICK_VERTICAL")],
       [op |-> "get_axis", idx |-> ValueOf(_AxisKeys, "RIGHT_STICK_HORIZONTAL")],
       [op |-> "get_axis", idx |-> ValueOf(_AxisKeys, "RIGHT_STICK_VERTICAL")],
       [op |-> "get_axis", idx |-> ValueOf(_AxisKeys, "LEFT_ANALOG_TRIGGER")],
       [op |-> "get_axis", idx |-> ValueOf(_AxisKeys, "RIGHT_ANALOG_TRIGGER")] >>

\* The keyword arguments of _ButtonPressedState(...), evaluated in order
ButtonReads ==
    [k \in 1..Len(ButtonFields) |->
        [op |-> "get_button", idx |-> ValueOf(_ButtonKeys, ButtonFields[k])]]

HatReads == << [op |-> "get_hat", idx |-> 0] >>

\* pressed_button_ids: one get_button per member of _ButtonKeys
PressedReads ==
    [k \in 1..Len(_ButtonKeys) |->
        [op |-> "get_button", idx |-> _ButtonKeys[k].value]]

\* The event pump moved behind the reads
GetStateCalls_pump_last ==
    AxisReads \o ButtonReads \o HatReads \o PressedReads \o <<get_events>>

GetStateCalls ==
    <<get_events>> \o AxisReads \o ButtonReads \o HatReads \o PressedReads

\* A call the joystick can answer: it is not released and the index exists.
\* What a released joystick or a missing index answers is the joystick's
\* choice: it raises, or it returns the value it holds.
Answerable(c) ==
    \/ c.op = "get_events"
    \/ /\ quitCount = 0
       /\ c.op = "get_axis" => c.idx < device.numaxes
       /\ c.op = "get_button" => c.idx < device.numbuttons

\* The joystick's reads answer with the readings it holds after the pump.
get_axis(i) == raw'.axis[i]

get_button(i) == raw'.button[i]

get_hat(i) == raw'.hat

\* A dead zone that also swallows its edge
DeadZone_inclusive(v) == IF abs(v) <= self.dead_zone THEN 0 ELSE v

\* if abs(v) < self.dead_zone: v = 0.0
DeadZone(v) == IF abs(v) < self.dead_zone THEN 0 ELSE v

\* ControllerDPadState, built from its two positional arguments
ControllerDPadState(a, b) == [horizontal |-> a, vertical |-> b]

Axes ==
    [left_stick |->
        [horizontal_right |->
            DeadZone(get_axis(ValueOf(_AxisKeys, "LEFT_STICK_HORIZONTAL"))),
         vertical_down |->
            DeadZone(get_axis(ValueOf(_AxisKeys, "LEFT_STICK_VERTICAL")))],
     right_stick |->
        [horizontal_right |->
            DeadZone(get_axis(ValueOf(_AxisKeys, "RIGHT_STICK_HORIZONTAL"))),
         vertical_down |->
            DeadZone(get_axis(ValueOf(_AxisKeys, "RIGHT_STICK_VERTICAL")))],
     left_analog_trigger |->
        DeadZone(get_axis(ValueOf(_AxisKeys, "LEFT_ANALOG_TRIGGER"))),
     right_analog_trigger |->
        DeadZone(get_axis(ValueOf(_AxisKeys, "RIGHT_ANALOG_TRIGGER")))]

\* A button reported only in the poll in which its press arrives
Buttons_edge ==
    [f \in Range(ButtonFields) |->
        /\ get_button(ValueOf(_ButtonKeys, f))
        /\ ~(result.kind = "state" /\ result.state.buttons[f])]

Buttons ==
    [f \in Range(ButtonFields) |-> get_button(ValueOf(_ButtonKeys, f))]

\* The two hat components passed in the wrong order
DPad_swapped ==
    ControllerDPadState(
        int(get_hat(0)[ValueOf(_DPadKeys, "VERTICAL") + 1]),
        int(get_hat(0)[ValueOf(_DPadKeys, "HORIZONTAL") + 1]))

DPad ==
    ControllerDPadState(
        int(get_hat(0)[ValueOf(_DPadKeys, "HORIZONTAL") + 1]),
        int(get_hat(0)[ValueOf(_DPadKeys, "VERTICAL") + 1]))

ControllerState == [axes |-> Axes, buttons |-> Buttons, d_pad |-> DPad]

\* How many calls of a log are calls of op
Count(s, op) == Cardinality({k \in 1..Len(s) : s[k].op = op})

GetState ==
    /\ status = "Constructed"
    /\ calls < MaxCalls
    /\ calls' = calls + 1
    /\ \E r \in RawInputs : raw' = r
    /\ LET seq == GetStateCalls
           bad == {k \in 1..Len(seq) : ~Answerable(seq[k])}
       IN  \E raises \in (IF bad = {} THEN {FALSE} ELSE BOOLEAN) :
              IF raises
              THEN /\ callLog' = SubSeq(seq, 1, Min(bad))
                   /\ result' = [kind |-> "error", state |-> NoState]
                   /\ error' = "pygame.error"
              ELSE /\ callLog' = seq
                   /\ result' = [kind |-> "state", state |-> ControllerState]
                   /\ error' = "none"
    /\ pumpCount' = pumpCount + Count(callLog', "get_events")
    /\ repeat' = (raw' = raw /\ result.kind = "state")
    /\ pressed' = NoPressed
    /\ UNCHANGED << device, status, self, initCount, quitCount, disposeCalls >>

\* ------------------------------------------------- get_pressed_buttons
\* [field.name for field in fields(self) if getattr(self, field.name)]
get_pressed_buttons(buttons) ==
    SelectSeq(ButtonFields, LAMBDA f : buttons[f])

\* The caller asks the last snapshot for its pressed buttons.
PressedButtons ==
    /\ result.kind = "state"
    /\ ~pressed.valid
    /\ pressed' = [valid |-> TRUE,
                   names |-> get_pressed_buttons(result.state.buttons)]
    /\ UNCHANGED << device, raw, status, error, self, initCount, pumpCount,
                    quitCount, calls, disposeCalls, callLog, result, repeat >>

\* -------------------------------------------------------------- dispose
\* self.joystick.quit()
Dispose ==
    /\ status = "Constructed"
    /\ disposeCalls < MaxDispose
    /\ disposeCalls' = disposeCalls + 1
    /\ quitCount' = quitCount + 1
    /\ UNCHANGED << device, raw, status, error, self, initCount, pumpCount,
                    calls, callLog, result, repeat, pressed >>

Next ==
    \/ Construct
    \/ GetState
    \/ PressedButtons
    \/ Dispose

Spec == Init /\ [][Next]_vars

\* Construction alone, against every device
SpecConstruct == InitAll /\ [][Construct]_vars

\* ------------------------------------------------------------ properties
\* r normalised is out: 0.0 inside the dead zone of 0.07, r itself from 0.07 on
Normalized(r, out) ==
    /\ (-7 < r /\ r < 7) => out = 0
    /\ (r <= -7 \/ r >= 7) => out = r

\* C1: every snapshot get_state() returns holds, in each of its six analog
\* channels, the normalised raw reading of that channel's axis index: left
\* stick from 0/1, right stick from 2/3, left trigger from 4, right from 5.
C1_AxesNormalized ==
    result.kind = "state" =>
        LET a == result.state.axes
        IN  /\ Normalized(raw.axis[0], a.left_stick.horizontal_right)
            /\ Normalized(raw.axis[1], a.left_stick.vertical_down)
            /\ Normalized(raw.axis[2], a.right_stick.horizontal_right)
            /\ Normalized(raw.axis[3], a.right_stick.vertical_down)
            /\ Normalized(raw.axis[4], a.left_analog_trigger)
            /\ Normalized(raw.axis[5], a.right_analog_trigger)

\* The readings 0.03, -0.5, 0.02, 0.9, 0.0, 0.2 polled on a ready adapter
C1_Witness ==
    /\ result.kind = "state"
    /\ quitCount = 0
    /\ raw.axis[0] = 3 /\ raw.axis[1] = -50 /\ raw.axis[2] = 2
    /\ raw.axis[3] = 90 /\ raw.axis[4] = 0 /\ raw.axis[5] = 20
    /\ result.state.axes.left_stick =
           [horizontal_right |-> 0, vertical_down |-> -50]
    /\ result.state.axes.right_stick =
           [horizontal_right |-> 0, vertical_down |-> 90]
    /\ result.state.axes.left_analog_trigger = 0
    /\ result.state.axes.right_analog_trigger = 20

\* C2: constructing against a device whose name is not "Xbox Series X
\* Controller" raises a ValueError on every platform and for every axis and
\* button count, and leaves no constructed adapter.
C2_NameMismatchFails ==
    (status # "Uninitialized" /\ device.name # "Xbox Series X Controller") =>
        /\ status = "Failed"
        /\ error = "ValueError"
        /\ self = NoSelf

\* A Windows device with counts the tables cover, rejected for its name
C2_Witness ==
    /\ status = "Failed"
    /\ device.platform = <<"w", "i", "n", "3", "2">>
    /\ device.name = "Wireless Controller"
    /\ device.numaxes = 6
    /\ device.numbuttons = 16

\* C3: constructing against a device that reports an axis index outside the
\* axis keys, or a button index that is neither void nor a button key, raises
\* a ValueError and leaves no constructed adapter.
C3_UnmappedIndexFails ==
    (/\ status # "Uninitialized"
     /\ \/ \E i \in 0..(device.numaxes - 1) : i \notin {0, 1, 2, 3, 4, 5}
        \/ \E i \in 0..(device.numbuttons - 1) :
              /\ i \notin {10, 12, 13, 14, 15}
              /\ i \notin {0, 1, 2, 3, 4, 5, 6, 7, 8, 9, 11})
        => /\ status = "Failed"
           /\ error = "ValueError"
           /\ self = NoSelf

\* The right device on Windows, rejected only for its seventeenth button
C3_Witness ==
    /\ status = "Failed"
    /\ device.platform = <<"w", "i", "n", "3", "2">>
    /\ device.name = "Xbox Series X Controller"
    /\ device.numaxes = 6
    /\ device.numbuttons = 17

\* C4: get_pressed_buttons() on a snapshot lists exactly the pressed buttons,
\* in the declaration order of the button key enumeration.
C4_PressedInEnumOrder ==
    pressed.valid =>
        pressed.names =
            SelectSeq(<< "A", "B", "X", "Y", "LB", "RB", "VIEW", "MENU",
                         "LEFT_STICK", "RIGHT_STICK", "SCREENSHOT" >>,
                      LAMBDA f : result.state.buttons[f])

\* C5: the first dispose() calls the joystick's quit(), and quit() is never
\* called more than once, however often dispose() is called.
C5_QuitExactlyOnce ==
    /\ disposeCalls = 0 => quitCount = 0
    /\ disposeCalls >= 1 => quitCount = 1

\* C6: a get_state() call made after dispose() returns no ControllerState; it
\* raises.
C6_NoStateAfterDispose ==
    [][(calls' = calls + 1 /\ quitCount > 0) => result'.kind = "error"]_vars

\* C7: a get_state() call that finds the readings of the call before it, which
\* returned a snapshot, returns a snapshot equal to it in axes, buttons and
\* d-pad.
C7_SameReadingsSameSnapshot ==
    [][(/\ calls' = calls + 1
        /\ raw' = raw
        /\ result.kind = "state"
        /\ result'.kind = "state")
          => /\ result'.state.axes = result.state.axes
             /\ result'.state.buttons = result.state.buttons
             /\ result'.state.d_pad = result.state.d_pad]_vars

\* Two polls in a row with a button held and nothing changed between them
C7_Witness ==
    /\ repeat
    /\ calls >= 2
    /\ result.kind = "state"
    /\ raw.button[0]
    /\ result.state.buttons["A"]

\* C8: the d-pad of every snapshot get_state() returns is the raw hat value:
\* horizontal from its first component, vertical from its second, unchanged.
C8_DPadPassThrough ==
    result.kind = "state" =>
        /\ result.state.d_pad.horizontal * 100 = raw.hat[1]
        /\ result.state.d_pad.vertical * 100 = raw.hat[2]

\* The raw hat (1, -1) polled on a ready adapter
C8_Witness ==
    /\ result.kind = "state"
    /\ quitCount = 0
    /\ raw.hat = <<100, -100>>
    /\ result.state.d_pad = [horizontal |-> 1, vertical |-> -1]

\* C9: after k get_state() calls the event pump has run k times, and in each
\* call it runs once, before every read of the joystick.
C9_PumpOncePerCallFirst ==
    /\ pumpCount = calls
    /\ calls > 0 =>
          /\ Len(callLog) >= 1
          /\ callLog[1].op = "get_events"
          /\ \A k \in 2..Len(callLog) : callLog[k].op # "get_events"

\* Two polls of a ready adapter, the last one reading all its controls
C9_Witness ==
    /\ calls = 2
    /\ pumpCount = 2
    /\ quitCount = 0
    /\ result.kind = "state"
    /\ Len(callLog) > 1

\* C10: get_state() reads only indices of the mapping tables built at
\* construction: axis indices of axis_ids and button indices of button_ids.
C10_ReadsOnlyMappedIndices ==
    \A k \in 1..Len(callLog) :
        /\ callLog[k].op = "get_axis" => callLog[k].idx \in DOMAIN self.axis_ids
        /\ callLog[k].op = "get_button" =>
              callLog[k].idx \in DOMAIN self.button_ids

====
